---- MODULE Spec2Model ----
(***************************************************************************)
(* The accelerator dispatch layer of advent-of-cuda: the host functions    *)
(* add (src/src/add.rs) and graph_traversal / solve_part_2                 *)
(* (src/src/gpu_day08.rs), the device kernels add (src/gpu/src/add.rs)     *)
(* and graph_traversal (src/gpu/src/day08.rs), and the launch              *)
(* configuration both hosts compute.                                       *)
(*                                                                         *)
(* Arrays are 0-based in the source and are kept as sequences here:        *)
(* element i of the source is At(s, i).  Node identifiers are the 0-based  *)
(* positions of the labels in the sorted instruction map.                  *)
(***************************************************************************)
EXTENDS Integers, Sequences, FiniteSets, TLC

\* ------------------------------------------------------------------ bounds
MaxNodes == 1
MaxDirs == 2
MaxBlock == 2
MaxDispatch == 3
MaxLen == 1
MaxVal == 1
MaxCalls == 2
MaxN == 5
MaxCpuSteps == 12

\* ----------------------------------------------------------------- helpers
At(s, i) == s[i + 1]

Contains(s, x) == \E k \in 1..Len(s) : s[k] = x

\* Vec::insert(idx, x): x is placed at position idx, the tail moves right.
VecInsert(s, idx, x) == SubSeq(s, 1, idx) \o <<x>> \o SubSeq(s, idx + 1, Len(s))

Zeros(n) == [k \in 1..n |-> 0]

\* the indexes i (ascending) of the instructions whose label ends with ch
RECURSIVE IndexesEnding(_, _, _)
IndexesEnding(instructions, ch, i) ==
  IF i > Len(instructions) THEN <<>>
  ELSE (IF instructions[i].last = ch THEN <<i - 1>> ELSE <<>>)
         \o IndexesEnding(instructions, ch, i + 1)

\* ------------------------------------------------- 32-bit launch arithmetic
\* A machine word is a little-endian sequence of 16-bit limbs: a usize has
\* four limbs, a u32 two.  This keeps u32 wrap-around at 2^32 exact.
Base == 256 * 256

Usize(n) == <<n % Base, n \div Base, 0, 0>>

\* `length as u32`: the cast keeps the low 32 bits
AsU32(x) == <<x[1], x[2]>>

U32(n) == <<n % Base, n \div Base>>

U32Value(x) == x[1] + Base * x[2]

\* u32 + u32: the wrapped sum and whether it overflowed
U32Add(x, y) ==
  LET s1 == x[1] + y[1]
      s2 == x[2] + y[2] + (s1 \div Base)
  IN  [val |-> <<s1 % Base, s2 % Base>>, overflow |-> s2 >= Base]

\* u32 - 1: the wrapped difference and whether it overflowed
U32Sub1(x) ==
  IF x = <<0, 0>> THEN [val |-> <<Base - 1, Base - 1>>, overflow |-> TRUE]
  ELSE IF x[1] > 0 THEN [val |-> <<x[1] - 1, x[2]>>, overflow |-> FALSE]
  ELSE [val |-> <<Base - 1, x[2] - 1>>, overflow |-> FALSE]

\* u32 / b for a divisor b that fits one limb (a block size)
U32Div(x, b) ==
  LET r == x[2] % b
      t == r * Base + x[1]
  IN  <<t \div b, x[2] \div b>>

\* grid_size = (length as u32 + block_size - 1) / block_size.  With overflow
\* checks (a debug or test build) an overflowing + or - panics; without them
\* (a release build) it wraps.
LaunchConfig(length, block_size, checks) ==
  LET sum == U32Add(AsU32(length), U32(block_size))
      dif == U32Sub1(sum.val)
  IN  IF checks /\ (sum.overflow \/ dif.overflow)
      THEN [panic |-> TRUE, grid_size |-> <<0, 0>>, block_size |-> block_size]
      ELSE [panic |-> FALSE, grid_size |-> U32Div(dif.val, block_size),
            block_size |-> block_size]

\* ------------------------------------------------------------- the kernels
\* One device thread of the graph_traversal kernel, from direction i on.
\* items is the thread's private copy of start.  The result records whether
\* the thread trapped (an index out of bounds panics, which traps on the
\* device) and the writes it made through the raw output pointers, in order.
RECURSIVE kernel_graph_traversal_from(_, _, _, _, _, _, _)
kernel_graph_traversal_from(idx, graph, goals, directions, items, i, writes) ==
  IF i > Len(directions) THEN [trap |-> FALSE, writes |-> writes]
  ELSE IF idx < Len(goals)
  THEN IF idx >= Len(items) THEN [trap |-> TRUE, writes |-> writes]
       ELSE LET cur == At(items, idx)
            IN  IF cur >= Len(graph) THEN [trap |-> TRUE, writes |-> writes]
                ELSE LET node  == IF directions[i] THEN At(graph, cur)[1]
                                                   ELSE At(graph, cur)[2]
                         found == Contains(goals, node)
                         w     == writes \o <<[buf |-> "nodes", at |-> idx, val |-> node],
                                             [buf |-> "steps", at |-> idx, val |-> 1]>>
                     IN  IF found /\ idx = 0
                         THEN [trap |-> FALSE, writes |-> w]
                         ELSE kernel_graph_traversal_from(idx, graph, goals, directions,
                                  VecInsert(items, idx, node), i + 1, w)
  ELSE IF idx = 0 THEN [trap |-> FALSE, writes |-> writes]
       ELSE kernel_graph_traversal_from(idx, graph, goals, directions, items, i + 1, writes)

kernel_graph_traversal(idx, graph, start_, goals, directions) ==
  kernel_graph_traversal_from(idx, graph, goals, directions, start_, 1, <<>>)

\* a raw pointer write `*ptr.add(at) = val` into a device buffer
RECURSIVE ApplyWrites(_, _, _)
ApplyWrites(buf, name, writes) ==
  IF writes = <<>> THEN buf
  ELSE LET w == Head(writes)
       IN  ApplyWrites(IF w.buf = name /\ w.at < Len(buf)
                       THEN [buf EXCEPT ![w.at + 1] = w.val] ELSE buf,
                       name, Tail(writes))

\* ------------------------------------------------------------------ inputs
Kinds == {"A", "Z", "X"}

\* an instruction map of n labels in key order: the last character of each
\* label and the positions of its left and right successor; the position n
\* stands for a successor label that is not a key of the map (the parser does
\* not check the successors)
InstructionMaps(n) == [1..n -> [last : Kinds, left : 0..n, right : 0..n]]

DirectionSeqs == UNION {[1..d -> BOOLEAN] : d \in 1..MaxDirs}

I(last, left, right) == [last |-> last, left |-> left, right |-> right]

\* the documented example: LR over 11A 11B 11Z 22A 22B 22C 22Z XXX
DocExample ==
  [directions |-> <<TRUE, FALSE>>,
   instructions |-> <<I("A", 1, 7), I("X", 7, 2), I("Z", 1, 7), I("A", 4, 7),
                      I("X", 5, 5), I("X", 6, 6), I("Z", 4, 4), I("X", 7, 7)>>]

\* three walkers that first reach a goal after 2, 3 and 6 steps and return to
\* it every 2, 3 and 6 steps: 11A 11B 11Z 22A 22B 22C 22Z 33A 33B .. 33F 33Z
ThreeWalkers ==
  [directions |-> <<TRUE, FALSE>>,
   instructions |-> <<I("A", 1, 1), I("X", 2, 2), I("Z", 1, 1),
                      I("A", 4, 4), I("X", 5, 5), I("X", 6, 6), I("Z", 4, 4),
                      I("A", 8, 8), I("X", 9, 9), I("X", 10, 10), I("X", 11, 11),
                      I("X", 12, 12), I("X", 13, 13), I("Z", 8, 8)>>]

\* two walkers that are both on a goal after every odd number of steps of LR:
\* 11A 11Z 22A 22B 22Z, with 11Z = (11Z, 11Z), 22Z = (22B, 22B), 22B = (22Z, 22Z)
OddSteps ==
  [directions |-> <<TRUE, FALSE>>,
   instructions |-> <<I("A", 1, 1), I("Z", 1, 1), I("A", 4, 4), I("X", 4, 4),
                      I("Z", 3, 3)>>]

\* one walker and two goal nodes: 11A 11Z 22Z
OneWalkerTwoGoals ==
  [directions |-> <<TRUE>>,
   instructions |-> <<I("A", 1, 1), I("Z", 1, 1), I("Z", 2, 2)>>]

Inputs ==
  {[directions |-> d, instructions |-> m] :
      d \in DirectionSeqs, m \in UNION {InstructionMaps(n) : n \in 0..MaxNodes}}
  \cup {DocExample, ThreeWalkers, OddSteps, OneWalkerTwoGoals}

\* the kernels the GPU crate declares (pub mod add) and the entry points the
\* embedded PTX artifact can hold: built from the crate as it is, or from a
\* crate that also declares the day08 kernel
CrateKernels == {"add"}

PtxChoices == {CrateKernels, CrateKernels \cup {"graph_traversal"}}

BlockSizes == 1..MaxBlock

\* ------------------------------------------------------------------- state
VARIABLES
  ptx,              \* entry points of crate::PTX
  occupancy,        \* block size the occupancy query returns on this device
  overflow_checks,  \* whether the build panics on integer overflow
  instructions,     \* solve_part_2: the parsed instruction map
  graph, goals, directions,   \* solve_part_2: the immutable inputs
  start,            \* solve_part_2: the walker set
  steps,            \* solve_part_2: the step total
  result,           \* what the entry point returned
  pc,               \* position of the host thread
  session,          \* _ctx, module and stream of the running call
  bufs,             \* device buffers of the running call
  nodes, steps_run, \* host output vectors of graph_traversal
  cfg,              \* func, block_size, grid_size of the running call
  kernel,           \* the launch in flight on the device
  hist,             \* history: what the run has done to the device so far
  a, b, out,        \* add: the two inputs and the host output vector
  plan              \* the launch planner on its own: length, block size, result

vars == <<ptx, occupancy, overflow_checks, instructions, graph, goals, directions, start, steps,
          result, pc, session, bufs, nodes, steps_run, cfg, kernel, hist,
          a, b, out, plan>>

Running == [tag |-> "running", val |-> 0, err |-> ""]
Ok(v) == [tag |-> "Ok", val |-> v, err |-> ""]
Err(e) == [tag |-> "Err", val |-> 0, err |-> e]

Panicked == [tag |-> "panic", val |-> 0, err |-> ""]

NoSession == [ctx |-> FALSE, module |-> FALSE, stream |-> 0]

\* a_vec and b_vec are the host temporaries a.to_vec() and b.to_vec() of add
BufNames == {"graph_gpu", "start_gpu", "goals_gpu", "directions_gpu",
             "nodes_buf", "steps_buf", "lhs_gpu", "rhs_gpu", "out_buf",
             "a_vec", "b_vec"}

NoBufs == [name \in BufNames |-> [live |-> FALSE, data |-> <<>>]]

NoCfg == [func |-> "", block_size |-> 0, grid_size |-> 0]

NoPlan == [length |-> <<0, 0, 0, 0>>, block_size |-> 1, computed |-> FALSE,
           panic |-> FALSE, grid_size |-> <<0, 0>>]

\* args: the buffers whose addresses the launch was given; log: what each
\* thread that has run did (whether it trapped, the slots it wrote, the number
\* of direction steps it advanced its walker: a step writes a node and a count)
NoKernel == [active |-> FALSE, pending |-> {}, trapped |-> FALSE, stream |-> 0,
             args |-> {}, log |-> {}]

\* the number of direction steps the launch in flight has advanced walker w
\* (the w-th of the walker set, thread w - 1)
AdvancesOf(w) ==
  LET ts == {t \in kernel.log : t.idx = w - 1}
  IN  IF ts = {} THEN 0 ELSE (CHOOSE t \in ts : TRUE).advances

\* the output slots a thread wrote
Slots(writes) == {[buf |-> writes[k].buf, at |-> writes[k].at] : k \in 1..Len(writes)}

\* What the running call of an entry point has done so far.
\* device_ops: the device calls made by the running entry point; faults: those
\* that failed for a reason of the device's own (not a rejected launch
\* configuration, a missing entry point or a trap of the kernel); start0: the
\* walker set the run began with; heads: the walker sets earlier iterations
\* of the loop began with; adv: the number of direction steps each walker was
\* advanced by the dispatches that have returned; calls: the finished calls
\* of add
NoHist == [inits |-> 0, loads |-> 0, streams |-> 0, lookups |-> 0, launches |-> <<>>,
           syncs |-> 0, released |-> <<>>, launch_calls |-> 0, dispatches |-> 0,
           device_ops |-> 0, faults |-> 0,
           start0 |-> <<>>, heads |-> {}, adv |-> <<>>, calls |-> <<>>]

\* ------------------------------------------------- what every call shares
\* the locals of graph_traversal and of add that own a device resource, in
\* the order of their declaration
Declared == <<"ctx", "module", "stream", "graph_gpu", "start_gpu", "goals_gpu",
              "directions_gpu", "nodes_buf", "steps_buf", "lhs_gpu", "rhs_gpu", "out_buf">>

IsLive(sess, bfs, name) ==
  CASE name = "ctx" -> sess.ctx
    [] name = "module" -> sess.module
    [] name = "stream" -> sess.stream # 0
    [] OTHER -> bfs[name].live

RECURSIVE LiveFrom(_, _, _)
LiveFrom(sess, bfs, k) ==
  IF k = 0 THEN <<>>
  ELSE (IF IsLive(sess, bfs, Declared[k]) THEN <<Declared[k]>> ELSE <<>>)
         \o LiveFrom(sess, bfs, k - 1)

\* a variant that releases the locals in the order of their declaration
DropOrder_as_declared(sess, bfs) ==
  LET r == LiveFrom(sess, bfs, Len(Declared))
  IN  [k \in 1..Len(r) |-> r[Len(r) + 1 - k]]

\* the order in which leaving the function releases its live locals: the
\* reverse of their declaration
DropOrder(sess, bfs) == LiveFrom(sess, bfs, Len(Declared))

\* leaving the function, by `?` or by its last line, drops every local: the
\* device buffers, the stream, the module and the context
DropLocals ==
  /\ session' = NoSession
  /\ bufs' = NoBufs
  /\ cfg' = NoCfg
  /\ kernel' = NoKernel

\* a device call is counted when it is made, whether or not it succeeds
Called(h) == [h EXCEPT !.device_ops = @ + 1]

\* a variant in which solve_part_2 retries a dispatch that failed
ReturnErr_retry(e, h) ==
  /\ result' = result
  /\ pc' = "loop"
  /\ hist' = [h EXCEPT !.released = DropOrder(session, bufs)]
  /\ DropLocals

\* solve_part_2 returns Err(e): by `?` in graph_traversal and `?` at its call
ReturnErr(e, h) ==
  /\ result' = Err(e)
  /\ pc' = "done"
  /\ hist' = [h EXCEPT !.released = DropOrder(session, bufs)]
  /\ DropLocals

\* the device call being made fails
Fail(e) == ReturnErr(e, [Called(hist) EXCEPT !.faults = @ + 1])

Inputs_unchanged ==
  UNCHANGED <<ptx, occupancy, overflow_checks, instructions, graph, goals, directions,
              a, b, out, plan>>

\* ------------------------------------------------ gpu_day08::solve_part_2
\* whether every successor label of the map is a key of the map
WellFormed(ins) ==
  \A k \in 1..Len(ins) : ins[k].left < Len(ins) /\ ins[k].right < Len(ins)

\* the head of solve_part_2: the graph, the goals and the starting walker set
\* are built from the instruction map.  instruction_keys_map.get(..).unwrap()
\* panics on a successor label that is not a key.
solve_part_2_build_graph ==
  /\ pc = "build_graph"
  /\ IF WellFormed(instructions)
     THEN /\ graph' = [k \in 1..Len(instructions) |->
                        <<instructions[k].left, instructions[k].right>>]
          /\ goals' = IndexesEnding(instructions, "Z", 1)
          /\ start' = IndexesEnding(instructions, "A", 1)
          /\ hist' = [hist EXCEPT !.start0 = start', !.adv = Zeros(Len(start'))]
          /\ pc' = "loop"
          /\ UNCHANGED result
     ELSE /\ result' = Panicked
          /\ pc' = "done"
          /\ UNCHANGED <<graph, goals, start, hist>>
  /\ UNCHANGED <<ptx, occupancy, overflow_checks, instructions, directions, steps,
                 session, bufs, nodes, steps_run, cfg, kernel, a, b, out, plan>>

\* the loop head: the next call of graph_traversal(&graph, &start, &goals,
\* &directions).  The source has no iteration cap; MaxDispatch bounds the model.
solve_part_2_loop ==
  /\ pc = "loop"
  /\ hist.dispatches < MaxDispatch
  /\ pc' = "quick_init"
  /\ hist' = [hist EXCEPT !.dispatches = @ + 1, !.heads = @ \cup {start}]
  /\ nodes' = <<>>
  /\ steps_run' = <<>>
  /\ UNCHANGED <<start, steps, result, session, bufs, cfg, kernel>>
  /\ Inputs_unchanged

\* a variant that creates the context in the first dispatch and reuses it later
gt_quick_init_once ==
  /\ pc = "quick_init"
  /\ \E ok \in BOOLEAN :
       IF ok
       THEN /\ session' = [session EXCEPT !.ctx = TRUE]
            /\ hist' = [Called(hist) EXCEPT !.inits = IF @ = 0 THEN 1 ELSE @]
            /\ pc' = "from_ptx"
            /\ UNCHANGED <<result, bufs, cfg, kernel>>
       ELSE Fail("quick_init")
  /\ UNCHANGED <<start, steps, nodes, steps_run>>
  /\ Inputs_unchanged

\* a variant that goes on when the initialization has failed
gt_quick_init_unchecked ==
  /\ pc = "quick_init"
  /\ \E ok \in BOOLEAN :
       /\ session' = [session EXCEPT !.ctx = ok]
       /\ hist' = [Called(hist) EXCEPT !.inits = @ + 1, !.faults = @ + (IF ok THEN 0 ELSE 1)]
       /\ pc' = "from_ptx"
       /\ UNCHANGED <<result, bufs, cfg, kernel>>
  /\ UNCHANGED <<start, steps, nodes, steps_run>>
  /\ Inputs_unchanged

\* let _ctx = cust::quick_init()?;
gt_quick_init ==
  /\ pc = "quick_init"
  /\ \E ok \in BOOLEAN :
       IF ok
       THEN /\ session' = [session EXCEPT !.ctx = TRUE]
            /\ hist' = [Called(hist) EXCEPT !.inits = @ + 1]
            /\ pc' = "from_ptx"
            /\ UNCHANGED <<result, bufs, cfg, kernel>>
       ELSE Fail("quick_init")
  /\ UNCHANGED <<start, steps, nodes, steps_run>>
  /\ Inputs_unchanged

\* let module = Module::from_ptx(crate::PTX, &[])?;
gt_from_ptx ==
  /\ pc = "from_ptx"
  /\ \E ok \in BOOLEAN :
       IF ok
       THEN /\ session' = [session EXCEPT !.module = TRUE]
            /\ hist' = [Called(hist) EXCEPT !.loads = @ + 1]
            /\ pc' = "stream_new"
            /\ UNCHANGED <<result, bufs, cfg, kernel>>
       ELSE Fail("from_ptx")
  /\ UNCHANGED <<start, steps, nodes, steps_run>>
  /\ Inputs_unchanged

\* a variant that creates one stream in the first dispatch, shared by all
gt_stream_new_shared ==
  /\ pc = "stream_new"
  /\ \E ok \in BOOLEAN :
       IF ok
       THEN /\ session' = [session EXCEPT !.stream = 1]
            /\ hist' = [Called(hist) EXCEPT !.streams = 1]
            /\ pc' = "as_dbuf_graph"
            /\ UNCHANGED <<result, bufs, cfg, kernel>>
       ELSE Fail("stream_new")
  /\ UNCHANGED <<start, steps, nodes, steps_run>>
  /\ Inputs_unchanged

\* let stream = Stream::new(StreamFlags::NON_BLOCKING, None)?;
gt_stream_new ==
  /\ pc = "stream_new"
  /\ \E ok \in BOOLEAN :
       IF ok
       THEN /\ session' = [session EXCEPT !.stream = hist.streams + 1]
            /\ hist' = [Called(hist) EXCEPT !.streams = @ + 1]
            /\ pc' = "as_dbuf_graph"
            /\ UNCHANGED <<result, bufs, cfg, kernel>>
       ELSE Fail("stream_new")
  /\ UNCHANGED <<start, steps, nodes, steps_run>>
  /\ Inputs_unchanged

\* let x_gpu = x.as_dbuf()?;  allocates device memory and copies x into it
gt_as_dbuf(at, name, data, next) ==
  /\ pc = at
  /\ \E ok \in BOOLEAN :
       IF ok
       THEN /\ bufs' = [bufs EXCEPT ![name] = [live |-> TRUE, data |-> data]]
            /\ hist' = Called(hist)
            /\ pc' = next
            /\ UNCHANGED <<result, session, cfg, kernel>>
       ELSE Fail(at)
  /\ UNCHANGED <<start, steps, nodes, steps_run>>
  /\ Inputs_unchanged

\* a variant that makes the output vector as long as the goal set
gt_as_dbuf_nodes_by_goals ==
  /\ pc = "as_dbuf_nodes"
  /\ \E ok \in BOOLEAN :
       IF ok
       THEN /\ nodes' = Zeros(Len(goals))
            /\ bufs' = [bufs EXCEPT !["nodes_buf"] = [live |-> TRUE, data |-> Zeros(Len(goals))]]
            /\ hist' = Called(hist)
            /\ pc' = "as_dbuf_steps"
            /\ UNCHANGED <<result, session, cfg, kernel>>
       ELSE /\ Fail("as_dbuf_nodes")
            /\ UNCHANGED nodes
  /\ UNCHANGED <<start, steps, steps_run>>
  /\ Inputs_unchanged

\* let mut nodes = vec![0u32; length]; let nodes_buf = nodes.as_slice().as_dbuf()?;
gt_as_dbuf_nodes ==
  /\ pc = "as_dbuf_nodes"
  /\ \E ok \in BOOLEAN :
       IF ok
       THEN /\ nodes' = Zeros(Len(start))
            /\ bufs' = [bufs EXCEPT !["nodes_buf"] = [live |-> TRUE, data |-> Zeros(Len(start))]]
            /\ hist' = Called(hist)
            /\ pc' = "as_dbuf_steps"
            /\ UNCHANGED <<result, session, cfg, kernel>>
       ELSE /\ Fail("as_dbuf_nodes")
            /\ UNCHANGED nodes
  /\ UNCHANGED <<start, steps, steps_run>>
  /\ Inputs_unchanged

\* let mut steps = vec![0u64; length]; let steps_buf = steps.as_slice().as_dbuf()?;
gt_as_dbuf_steps ==
  /\ pc = "as_dbuf_steps"
  /\ \E ok \in BOOLEAN :
       IF ok
       THEN /\ steps_run' = Zeros(Len(start))
            /\ bufs' = [bufs EXCEPT !["steps_buf"] = [live |-> TRUE, data |-> Zeros(Len(start))]]
            /\ hist' = Called(hist)
            /\ pc' = "get_function"
            /\ UNCHANGED <<result, session, cfg, kernel>>
       ELSE /\ Fail("as_dbuf_steps")
            /\ UNCHANGED steps_run
  /\ UNCHANGED <<start, steps, nodes>>
  /\ Inputs_unchanged

\* a variant in which the lookup succeeds whatever the module holds
gt_get_function_unchecked ==
  /\ pc = "get_function"
  /\ cfg' = [cfg EXCEPT !.func = "graph_traversal"]
  /\ hist' = [Called(hist) EXCEPT !.lookups = @ + 1]
  /\ pc' = "suggested_launch_configuration"
  /\ UNCHANGED <<result, session, bufs, kernel>>
  /\ UNCHANGED <<start, steps, nodes, steps_run>>
  /\ Inputs_unchanged

\* let func = module.get_function("graph_traversal")?;
gt_get_function ==
  /\ pc = "get_function"
  /\ IF "graph_traversal" \in ptx
     THEN /\ cfg' = [cfg EXCEPT !.func = "graph_traversal"]
          /\ hist' = [Called(hist) EXCEPT !.lookups = @ + 1]
          /\ pc' = "suggested_launch_configuration"
          /\ UNCHANGED <<result, session, bufs, kernel>>
     ELSE ReturnErr("get_function", [Called(hist) EXCEPT !.lookups = @ + 1])
  /\ UNCHANGED <<start, steps, nodes, steps_run>>
  /\ Inputs_unchanged

\* let (_, block_size) = func.suggested_launch_configuration(0, 0.into())?;
\* let grid_size = (length as u32 + block_size - 1) / block_size;
gt_suggested_launch_configuration ==
  /\ pc = "suggested_launch_configuration"
  /\ \E ok \in BOOLEAN :
       IF ok
       THEN LET lc == LaunchConfig(Usize(Len(start)), occupancy, overflow_checks)
            IN  IF lc.panic
                THEN /\ result' = Panicked
                     /\ pc' = "done"
                     /\ hist' = [Called(hist) EXCEPT !.released = DropOrder(session, bufs)]
                     /\ DropLocals
                ELSE /\ cfg' = [cfg EXCEPT !.block_size = lc.block_size,
                                           !.grid_size = U32Value(lc.grid_size)]
                     /\ hist' = Called(hist)
                     /\ pc' = "launch"
                     /\ UNCHANGED <<result, session, bufs, kernel>>
       ELSE Fail("suggested_launch_configuration")
  /\ UNCHANGED <<start, steps, nodes, steps_run>>
  /\ Inputs_unchanged

\* a variant in which the call returns as soon as the launch is enqueued
gt_launch_no_wait ==
  /\ pc = "launch"
  /\ \E ok \in BOOLEAN :
       IF ok /\ cfg.grid_size > 0
       THEN /\ kernel' = [active |-> TRUE,
                          pending |-> 0..(cfg.grid_size * cfg.block_size - 1),
                          trapped |-> FALSE, stream |-> session.stream,
                          args |-> {"graph_gpu", "start_gpu", "goals_gpu",
                                    "directions_gpu", "nodes_buf", "steps_buf"},
                          log |-> {}]
            /\ hist' = [Called(hist) EXCEPT !.launch_calls = @ + 1,
                                            !.launches = Append(@, session.stream)]
            /\ pc' = "return"
            /\ UNCHANGED <<result, session, bufs, cfg>>
       ELSE ReturnErr("launch", [Called(hist) EXCEPT !.launch_calls = @ + 1,
                                                     !.faults = @ + (IF ok THEN 0 ELSE 1)])
  /\ UNCHANGED <<start, steps, nodes, steps_run>>
  /\ Inputs_unchanged

\* launch!(func<<<grid_size, block_size, 0, stream>>>(...))?;  the launch is
\* enqueued on the stream and the host goes on; the device rejects a grid of
\* zero blocks
gt_launch ==
  /\ pc = "launch"
  /\ \E ok \in BOOLEAN :
       IF ok /\ cfg.grid_size > 0
       THEN /\ kernel' = [active |-> TRUE,
                          pending |-> 0..(cfg.grid_size * cfg.block_size - 1),
                          trapped |-> FALSE, stream |-> session.stream,
                          args |-> {"graph_gpu", "start_gpu", "goals_gpu",
                                    "directions_gpu", "nodes_buf", "steps_buf"},
                          log |-> {}]
            /\ hist' = [Called(hist) EXCEPT !.launch_calls = @ + 1,
                                            !.launches = Append(@, session.stream)]
            /\ pc' = "synchronize"
            /\ UNCHANGED <<result, session, bufs, cfg>>
       ELSE ReturnErr("launch", [Called(hist) EXCEPT !.launch_calls = @ + 1,
                                                     !.faults = @ + (IF ok THEN 0 ELSE 1)])
  /\ UNCHANGED <<start, steps, nodes, steps_run>>
  /\ Inputs_unchanged

\* a variant in which every thread also stores its node in slot 0 of nodes,
\* so that the thread that runs last decides that slot
gt_kernel_thread_racy(idx) ==
  /\ kernel.active
  /\ cfg.func = "graph_traversal"
  /\ idx \in kernel.pending
  /\ LET r == kernel_graph_traversal(idx, bufs["graph_gpu"].data, bufs["start_gpu"].data,
                                     bufs["goals_gpu"].data, bufs["directions_gpu"].data)
         w == r.writes \o [k \in 1..Len(r.writes) |-> [r.writes[k] EXCEPT !.at = 0]]
         t == [idx |-> idx, trap |-> r.trap, writes |-> Slots(w),
               advances |-> Len(r.writes) \div 2]
     IN  /\ bufs' = [bufs EXCEPT
                       !["nodes_buf"].data = ApplyWrites(@, "nodes", w),
                       !["steps_buf"].data = ApplyWrites(@, "steps", w)]
         /\ kernel' = IF r.trap
                      THEN [kernel EXCEPT !.trapped = TRUE, !.pending = {},
                                          !.log = @ \cup {t}]
                      ELSE [kernel EXCEPT !.pending = @ \ {idx}, !.log = @ \cup {t}]
  /\ UNCHANGED <<start, steps, result, pc, session, nodes, steps_run, cfg, hist>>
  /\ Inputs_unchanged

\* a variant in which every thread writes output slot 0
gt_kernel_thread_slot0(idx) ==
  /\ kernel.active
  /\ cfg.func = "graph_traversal"
  /\ idx \in kernel.pending
  /\ LET r == kernel_graph_traversal(idx, bufs["graph_gpu"].data, bufs["start_gpu"].data,
                                     bufs["goals_gpu"].data, bufs["directions_gpu"].data)
         w == [k \in 1..Len(r.writes) |-> [r.writes[k] EXCEPT !.at = 0]]
         t == [idx |-> idx, trap |-> r.trap, writes |-> Slots(w),
               advances |-> Len(r.writes) \div 2]
     IN  /\ bufs' = [bufs EXCEPT
                       !["nodes_buf"].data = ApplyWrites(@, "nodes", w),
                       !["steps_buf"].data = ApplyWrites(@, "steps", w)]
         /\ kernel' = IF r.trap
                      THEN [kernel EXCEPT !.trapped = TRUE, !.pending = {},
                                          !.log = @ \cup {t}]
                      ELSE [kernel EXCEPT !.pending = @ \ {idx}, !.log = @ \cup {t}]
  /\ UNCHANGED <<start, steps, result, pc, session, nodes, steps_run, cfg, hist>>
  /\ Inputs_unchanged

\* the device runs one thread of the launched graph_traversal kernel; the
\* threads of a launch run in any order
gt_kernel_thread(idx) ==
  /\ kernel.active
  /\ cfg.func = "graph_traversal"
  /\ idx \in kernel.pending
  /\ LET r == kernel_graph_traversal(idx, bufs["graph_gpu"].data, bufs["start_gpu"].data,
                                     bufs["goals_gpu"].data, bufs["directions_gpu"].data)
         t == [idx |-> idx, trap |-> r.trap, writes |-> Slots(r.writes),
               advances |-> Len(r.writes) \div 2]
     IN  /\ bufs' = [bufs EXCEPT
                       !["nodes_buf"].data = ApplyWrites(@, "nodes", r.writes),
                       !["steps_buf"].data = ApplyWrites(@, "steps", r.writes)]
         /\ kernel' = IF r.trap
                      THEN [kernel EXCEPT !.trapped = TRUE, !.pending = {},
                                          !.log = @ \cup {t}]
                      ELSE [kernel EXCEPT !.pending = @ \ {idx}, !.log = @ \cup {t}]
  /\ UNCHANGED <<start, steps, result, pc, session, nodes, steps_run, cfg, hist>>
  /\ Inputs_unchanged

\* a variant in which synchronize returns without waiting for the launch
gt_synchronize_no_wait ==
  /\ pc = "synchronize"
  /\ \E ok \in BOOLEAN :
       IF ok /\ ~kernel.trapped
       THEN /\ UNCHANGED kernel
            /\ hist' = [Called(hist) EXCEPT !.syncs = @ + 1]
            /\ pc' = "copy_nodes"
            /\ UNCHANGED <<result, session, bufs, cfg>>
       ELSE ReturnErr("synchronize",
                      [Called(hist) EXCEPT !.faults = @ + (IF ok THEN 0 ELSE 1)])
  /\ UNCHANGED <<start, steps, nodes, steps_run>>
  /\ Inputs_unchanged

\* stream.synchronize()?;  blocks until the launch has completed and reports a
\* fault of the kernel
gt_synchronize ==
  /\ pc = "synchronize"
  /\ kernel.pending = {}
  /\ \E ok \in BOOLEAN :
       IF ok /\ ~kernel.trapped
       THEN /\ kernel' = [kernel EXCEPT !.active = FALSE]
            /\ hist' = [Called(hist) EXCEPT !.syncs = @ + 1]
            /\ pc' = "copy_nodes"
            /\ UNCHANGED <<result, session, bufs, cfg>>
       ELSE ReturnErr("synchronize",
                      [Called(hist) EXCEPT !.faults = @ + (IF ok THEN 0 ELSE 1)])
  /\ UNCHANGED <<start, steps, nodes, steps_run>>
  /\ Inputs_unchanged

\* nodes_buf.copy_to(&mut nodes)?;
gt_copy_nodes ==
  /\ pc = "copy_nodes"
  /\ \E ok \in BOOLEAN :
       IF ok
       THEN /\ nodes' = bufs["nodes_buf"].data
            /\ hist' = Called(hist)
            /\ pc' = "copy_steps"
            /\ UNCHANGED <<result, session, bufs, cfg, kernel>>
       ELSE /\ Fail("copy_nodes")
            /\ UNCHANGED nodes
  /\ UNCHANGED <<start, steps, steps_run>>
  /\ Inputs_unchanged

\* steps_buf.copy_to(&mut steps)?;
gt_copy_steps ==
  /\ pc = "copy_steps"
  /\ \E ok \in BOOLEAN :
       IF ok
       THEN /\ steps_run' = bufs["steps_buf"].data
            /\ hist' = Called(hist)
            /\ pc' = "return"
            /\ UNCHANGED <<result, session, bufs, cfg, kernel>>
       ELSE /\ Fail("copy_steps")
            /\ UNCHANGED steps_run
  /\ UNCHANGED <<start, steps, nodes>>
  /\ Inputs_unchanged

\* Ok((nodes, steps)), then in solve_part_2:
\*   steps += steps_run.len() as u64;
\*   if nodes.iter().all(|node| goals.contains(node)) { break; }
\*   start = nodes;
solve_part_2_check ==
  /\ pc = "return"
  /\ DropLocals
  /\ steps' = steps + Len(steps_run)
  /\ IF \A k \in 1..Len(nodes) : Contains(goals, nodes[k])
     THEN /\ result' = Ok(steps')
          /\ pc' = "done"
          /\ UNCHANGED start
     ELSE /\ start' = nodes
          /\ pc' = "loop"
          /\ UNCHANGED result
  /\ hist' = [hist EXCEPT !.released = DropOrder(session, bufs),
                          !.adv = [w \in 1..Len(@) |-> @[w] + AdvancesOf(w)]]
  /\ UNCHANGED <<nodes, steps_run>>
  /\ Inputs_unchanged

Init ==
  /\ ptx \in PtxChoices
  /\ occupancy \in BlockSizes
  /\ overflow_checks = TRUE
  /\ \E inp \in Inputs :
       /\ directions = inp.directions
       /\ instructions = inp.instructions
  /\ graph = <<>>
  /\ goals = <<>>
  /\ start = <<>>
  /\ steps = 0
  /\ result = Running
  /\ pc = "build_graph"
  /\ session = NoSession
  /\ bufs = NoBufs
  /\ nodes = <<>>
  /\ steps_run = <<>>
  /\ cfg = NoCfg
  /\ kernel = NoKernel
  /\ hist = NoHist
  /\ a = <<>>
  /\ b = <<>>
  /\ out = <<>>
  /\ plan = NoPlan

Next ==
  \/ solve_part_2_build_graph
  \/ solve_part_2_loop
  \/ gt_quick_init
  \/ gt_from_ptx
  \/ gt_stream_new
  \/ gt_as_dbuf("as_dbuf_graph", "graph_gpu", graph, "as_dbuf_start")
  \/ gt_as_dbuf("as_dbuf_start", "start_gpu", start, "as_dbuf_goals")
  \/ gt_as_dbuf("as_dbuf_goals", "goals_gpu", goals, "as_dbuf_directions")
  \/ gt_as_dbuf("as_dbuf_directions", "directions_gpu", directions, "as_dbuf_nodes")
  \/ gt_as_dbuf_nodes
  \/ gt_as_dbuf_steps
  \/ gt_get_function
  \/ gt_suggested_launch_configuration
  \/ gt_launch
  \/ \E idx \in kernel.pending : gt_kernel_thread(idx)
  \/ gt_synchronize
  \/ gt_copy_nodes
  \/ gt_copy_steps
  \/ solve_part_2_check

Spec == Init /\ [][Next]_vars

\* ------------------------------------------------------------ add::add
Vals == 0..MaxVal

Vecs == UNION {[1..n -> Vals] : n \in 0..MaxLen}

Sp2_unchanged ==
  UNCHANGED <<ptx, occupancy, overflow_checks, instructions, graph, goals, directions,
              start, steps, nodes, steps_run, plan>>

\* what is remembered of a finished call of add
Summary(r) == [mismatched |-> Len(a) # Len(b), tag |-> r.tag]

\* add returns r with the host vector o; every local is dropped
add_return(r, o, h) ==
  /\ result' = r
  /\ out' = o
  /\ pc' = "add_done"
  /\ hist' = [h EXCEPT !.released = DropOrder(session, bufs)]
  /\ DropLocals

add_fail(e) == add_return(Err(e), out, [Called(hist) EXCEPT !.faults = @ + 1])

\* the caller: the next call add(&a, &b) of the process
add_call ==
  /\ pc = "idle"
  /\ Len(hist.calls) < MaxCalls
  /\ a' \in Vecs
  /\ b' \in Vecs
  /\ pc' = "add_len_check"
  /\ UNCHANGED <<result, out, hist, session, bufs, cfg, kernel>>
  /\ Sp2_unchanged

\* the caller has taken what add returned and goes on
add_returned ==
  /\ pc = "add_done"
  /\ pc' = "idle"
  /\ a' = <<>>
  /\ b' = <<>>
  /\ out' = <<>>
  /\ result' = Running
  /\ hist' = [NoHist EXCEPT !.calls = Append(hist.calls, Summary(result))]
  /\ UNCHANGED <<session, bufs, cfg, kernel>>
  /\ Sp2_unchanged

\* a variant of add without the length check
add_len_check_missing ==
  /\ pc = "add_len_check"
  /\ pc' = "add_quick_init"
  /\ UNCHANGED <<result, out, hist, session, bufs, cfg, kernel>>
  /\ UNCHANGED <<a, b>>
  /\ Sp2_unchanged

\* if a.len() != b.len() { return Err(anyhow!("a and b must be the same length")); }
add_len_check ==
  /\ pc = "add_len_check"
  /\ IF Len(a) # Len(b)
     THEN add_return(Err("a and b must be the same length"), out, hist)
     ELSE /\ pc' = "add_quick_init"
          /\ UNCHANGED <<result, out, hist, session, bufs, cfg, kernel>>
  /\ UNCHANGED <<a, b>>
  /\ Sp2_unchanged

\* let _ctx = cust::quick_init()?;
add_quick_init ==
  /\ pc = "add_quick_init"
  /\ \E ok \in BOOLEAN :
       IF ok
       THEN /\ session' = [session EXCEPT !.ctx = TRUE]
            /\ hist' = [Called(hist) EXCEPT !.inits = @ + 1]
            /\ pc' = "add_from_ptx"
            /\ UNCHANGED <<result, out, bufs, cfg, kernel>>
       ELSE add_fail("quick_init")
  /\ UNCHANGED <<a, b>>
  /\ Sp2_unchanged

\* let module = Module::from_ptx(crate::PTX, &[])?;
add_from_ptx ==
  /\ pc = "add_from_ptx"
  /\ \E ok \in BOOLEAN :
       IF ok
       THEN /\ session' = [session EXCEPT !.module = TRUE]
            /\ hist' = [Called(hist) EXCEPT !.loads = @ + 1]
            /\ pc' = "add_stream_new"
            /\ UNCHANGED <<result, out, bufs, cfg, kernel>>
       ELSE add_fail("from_ptx")
  /\ UNCHANGED <<a, b>>
  /\ Sp2_unchanged

\* let stream = Stream::new(StreamFlags::NON_BLOCKING, None)?;
add_stream_new ==
  /\ pc = "add_stream_new"
  /\ \E ok \in BOOLEAN :
       IF ok
       THEN /\ session' = [session EXCEPT !.stream = hist.streams + 1]
            /\ hist' = [Called(hist) EXCEPT !.streams = @ + 1]
            /\ pc' = "add_as_dbuf_lhs"
            /\ UNCHANGED <<result, out, bufs, cfg, kernel>>
       ELSE add_fail("stream_new")
  /\ UNCHANGED <<a, b>>
  /\ Sp2_unchanged

\* let lhs_gpu = a.as_dbuf()?;  let rhs_gpu = b.as_dbuf()?;
add_as_dbuf(at, name, data, next) ==
  /\ pc = at
  /\ \E ok \in BOOLEAN :
       IF ok
       THEN /\ bufs' = [bufs EXCEPT ![name] = [live |-> TRUE, data |-> data]]
            /\ hist' = Called(hist)
            /\ pc' = next
            /\ UNCHANGED <<result, out, session, cfg, kernel>>
       ELSE add_fail(at)
  /\ UNCHANGED <<a, b>>
  /\ Sp2_unchanged

\* let mut out = vec![0.0f32; length]; let out_buf = out.as_slice().as_dbuf()?;
add_as_dbuf_out ==
  /\ pc = "add_as_dbuf_out"
  /\ \E ok \in BOOLEAN :
       IF ok
       THEN /\ out' = Zeros(Len(a))
            /\ bufs' = [bufs EXCEPT !["out_buf"] = [live |-> TRUE, data |-> Zeros(Len(a))]]
            /\ hist' = Called(hist)
            /\ pc' = "add_get_function"
            /\ UNCHANGED <<result, session, cfg, kernel>>
       ELSE add_fail("as_dbuf_out")
  /\ UNCHANGED <<a, b>>
  /\ Sp2_unchanged

\* let func = module.get_function("add")?;
add_get_function ==
  /\ pc = "add_get_function"
  /\ IF "add" \in ptx
     THEN /\ cfg' = [cfg EXCEPT !.func = "add"]
          /\ hist' = [Called(hist) EXCEPT !.lookups = @ + 1]
          /\ pc' = "add_suggested_launch_configuration"
          /\ UNCHANGED <<result, out, session, bufs, kernel>>
     ELSE add_return(Err("get_function"), out, [Called(hist) EXCEPT !.lookups = @ + 1])
  /\ UNCHANGED <<a, b>>
  /\ Sp2_unchanged

\* let (_, block_size) = func.suggested_launch_configuration(0, 0.into())?;
\* let grid_size = (length as u32 + block_size - 1) / block_size;
add_suggested_launch_configuration ==
  /\ pc = "add_suggested_launch_configuration"
  /\ \E ok \in BOOLEAN :
       IF ok
       THEN LET lc == LaunchConfig(Usize(Len(a)), occupancy, overflow_checks)
            IN  IF lc.panic
                THEN add_return(Panicked, out, Called(hist))
                ELSE /\ cfg' = [cfg EXCEPT !.block_size = lc.block_size,
                                           !.grid_size = U32Value(lc.grid_size)]
                     /\ hist' = Called(hist)
                     /\ pc' = "add_launch"
                     /\ UNCHANGED <<result, out, session, bufs, kernel>>
       ELSE add_fail("suggested_launch_configuration")
  /\ UNCHANGED <<a, b>>
  /\ Sp2_unchanged

\* launch!(func<<<grid_size, block_size, 0, stream>>>(a.to_vec().as_device_ptr(),
\*   a.len(), b.to_vec().as_device_ptr(), b.len(), out_buf.as_device_ptr()))?;
\* The kernel is given the addresses of the host temporaries a.to_vec() and
\* b.to_vec(), which are dropped at the end of this statement, not the
\* uploaded lhs_gpu and rhs_gpu.
add_launch ==
  /\ pc = "add_launch"
  /\ \E ok \in BOOLEAN :
       IF ok /\ cfg.grid_size > 0
       THEN /\ kernel' = [active |-> TRUE,
                          pending |-> 0..(cfg.grid_size * cfg.block_size - 1),
                          trapped |-> FALSE, stream |-> session.stream,
                          args |-> {"a_vec", "b_vec", "out_buf"}, log |-> {}]
            /\ bufs' = [bufs EXCEPT !["a_vec"] = [live |-> FALSE, data |-> a],
                                    !["b_vec"] = [live |-> FALSE, data |-> b]]
            /\ hist' = [Called(hist) EXCEPT !.launch_calls = @ + 1,
                                            !.launches = Append(@, session.stream)]
            /\ pc' = "add_synchronize"
            /\ UNCHANGED <<result, out, session, cfg>>
       ELSE add_return(Err("launch"), out,
                       [Called(hist) EXCEPT !.launch_calls = @ + 1,
                                            !.faults = @ + (IF ok THEN 0 ELSE 1)])
  /\ UNCHANGED <<a, b>>
  /\ Sp2_unchanged

\* what a device thread can read at element i of a memory region: the element
\* while the region is live; anything once its owner has released it
DeviceRead(region, i) == IF region.live THEN {At(region.data, i)} ELSE Vals

\* whether a device access to the region can fault
CanFault(region) == IF region.live THEN {FALSE} ELSE BOOLEAN

\* the add kernel, thread idx: x and y are what it reads as a[idx] and b[idx]
\*   if idx < a.len() { let elem = &mut *c.add(idx); *elem = a[idx] + b[idx]; }
kernel_add(idx, a_len, x, y) ==
  IF idx < a_len THEN <<[buf |-> "c", at |-> idx, val |-> x + y]>> ELSE <<>>

\* the device runs one thread of the launched add kernel
add_kernel_thread(idx) ==
  /\ kernel.active
  /\ cfg.func = "add"
  /\ idx \in kernel.pending
  /\ IF idx < Len(a)
     THEN \E x \in DeviceRead(bufs["a_vec"], idx), y \in DeviceRead(bufs["b_vec"], idx),
             fault \in CanFault(bufs["a_vec"]) \cup CanFault(bufs["b_vec"]) :
            IF fault
            THEN /\ kernel' = [kernel EXCEPT !.trapped = TRUE, !.pending = {},
                                   !.log = @ \cup {[idx |-> idx, trap |-> TRUE, writes |-> {},
                                                    advances |-> 0]}]
                 /\ UNCHANGED bufs
            ELSE /\ bufs' = [bufs EXCEPT !["out_buf"].data =
                                ApplyWrites(@, "c", kernel_add(idx, Len(a), x, y))]
                 /\ kernel' = [kernel EXCEPT !.pending = @ \ {idx},
                                   !.log = @ \cup {[idx |-> idx, trap |-> FALSE,
                                       writes |-> Slots(kernel_add(idx, Len(a), x, y)),
                                       advances |-> 0]}]
     ELSE /\ kernel' = [kernel EXCEPT !.pending = @ \ {idx},
                            !.log = @ \cup {[idx |-> idx, trap |-> FALSE,
                                writes |-> Slots(kernel_add(idx, Len(a), 0, 0)),
                                advances |-> 0]}]
          /\ UNCHANGED bufs
  /\ UNCHANGED <<result, pc, session, cfg, hist, a, b, out>>
  /\ Sp2_unchanged

\* stream.synchronize()?;
add_synchronize ==
  /\ pc = "add_synchronize"
  /\ kernel.pending = {}
  /\ \E ok \in BOOLEAN :
       IF ok /\ ~kernel.trapped
       THEN /\ kernel' = [kernel EXCEPT !.active = FALSE]
            /\ hist' = [Called(hist) EXCEPT !.syncs = @ + 1]
            /\ pc' = "add_copy_to"
            /\ UNCHANGED <<result, out, session, bufs, cfg>>
       ELSE add_return(Err("synchronize"), out,
                       [Called(hist) EXCEPT !.faults = @ + (IF ok THEN 0 ELSE 1)])
  /\ UNCHANGED <<a, b>>
  /\ Sp2_unchanged

\* out_buf.copy_to(&mut out)?;  Ok(out)
add_copy_to ==
  /\ pc = "add_copy_to"
  /\ \E ok \in BOOLEAN :
       IF ok
       THEN add_return(Ok(0), bufs["out_buf"].data, Called(hist))
       ELSE add_fail("copy_to")
  /\ UNCHANGED <<a, b>>
  /\ Sp2_unchanged

InitAdd ==
  /\ ptx = CrateKernels
  /\ occupancy \in BlockSizes
  /\ overflow_checks = TRUE
  /\ instructions = <<>>
  /\ graph = <<>>
  /\ goals = <<>>
  /\ directions = <<>>
  /\ start = <<>>
  /\ steps = 0
  /\ result = Running
  /\ pc = "idle"
  /\ session = NoSession
  /\ bufs = NoBufs
  /\ nodes = <<>>
  /\ steps_run = <<>>
  /\ cfg = NoCfg
  /\ kernel = NoKernel
  /\ hist = NoHist
  /\ a = <<>>
  /\ b = <<>>
  /\ out = <<>>
  /\ plan = NoPlan

NextAdd ==
  \/ add_call
  \/ add_returned
  \/ add_len_check
  \/ add_quick_init
  \/ add_from_ptx
  \/ add_stream_new
  \/ add_as_dbuf("add_as_dbuf_lhs", "lhs_gpu", a, "add_as_dbuf_rhs")
  \/ add_as_dbuf("add_as_dbuf_rhs", "rhs_gpu", b, "add_as_dbuf_out")
  \/ add_as_dbuf_out
  \/ add_get_function
  \/ add_suggested_launch_configuration
  \/ add_launch
  \/ \E idx \in kernel.pending : add_kernel_thread(idx)
  \/ add_synchronize
  \/ add_copy_to

AddSpec == InitAdd /\ [][NextAdd]_vars

\* the element-wise sum of two vectors of equal length
VecSum(x, y) == [k \in 1..Len(x) |-> x[k] + y[k]]

\* ------------------------------------------------ the launch planner alone
\* 2^32 + d as a usize, for -Base < d < Base
Near2p32(d) == IF d >= 0 THEN <<d, 0, 1, 0>> ELSE <<Base + d, Base - 1, 0, 0>>

PlanLengths ==
  {Usize(n) : n \in 0..MaxN} \cup {Near2p32(d) : d \in (0 - MaxN)..MaxN}

PlanBlockSizes == BlockSizes \cup {32, 1024}

\* grid_size * block_size as a usize (the number of threads launched)
Threads(grid_size, block_size) ==
  LET p1 == grid_size[1] * block_size
      p2 == grid_size[2] * block_size + (p1 \div Base)
  IN  <<p1 % Base, p2 % Base, p2 \div Base, 0>>

\* x >= y on usize values
UsizeGe(x, y) ==
  \/ x = y
  \/ \E k \in 1..4 : x[k] > y[k] /\ \A j \in (k + 1)..4 : x[j] = y[j]

\* the host computes the launch configuration for plan.length elements from
\* the block size the occupancy query returned
plan_compute ==
  /\ ~plan.computed
  /\ LET lc == LaunchConfig(plan.length, plan.block_size, overflow_checks)
     IN  plan' = [plan EXCEPT !.computed = TRUE, !.panic = lc.panic,
                              !.grid_size = lc.grid_size]
  /\ UNCHANGED <<ptx, occupancy, overflow_checks, instructions, graph, goals, directions,
                 start, steps, result, pc, session, bufs, nodes, steps_run, cfg, kernel, hist, a, b, out>>

InitPlan ==
  /\ ptx = CrateKernels
  /\ occupancy = 1
  /\ overflow_checks \in BOOLEAN
  /\ instructions = <<>>
  /\ graph = <<>>
  /\ goals = <<>>
  /\ directions = <<>>
  /\ start = <<>>
  /\ steps = 0
  /\ result = Running
  /\ pc = "plan"
  /\ session = NoSession
  /\ bufs = NoBufs
  /\ nodes = <<>>
  /\ steps_run = <<>>
  /\ cfg = NoCfg
  /\ kernel = NoKernel
  /\ hist = NoHist
  /\ a = <<>>
  /\ b = <<>>
  /\ out = <<>>
  /\ \E n \in PlanLengths, bs \in PlanBlockSizes :
       plan = [NoPlan EXCEPT !.length = n, !.block_size = bs]

NextPlan == plan_compute

PlanSpec == InitPlan /\ [][NextPlan]_vars

\* ------------------------------------------------- the lock-step reference
\* every walker takes one step in direction dir
StepAll(pos, dir) ==
  [w \in 1..Len(pos) |-> IF dir THEN At(graph, pos[w])[1] ELSE At(graph, pos[w])[2]]

AllOnGoal(pos) == \A w \in 1..Len(pos) : Contains(goals, pos[w])

\* the least k >= done at which the walkers, advanced in lock-step by the
\* cyclically repeated directions, are all on goal nodes; -1 when there is
\* none (the pair of positions and direction index recurs first)
RECURSIVE FirstAllOnGoal(_, _, _)
FirstAllOnGoal(pos, done, seen) ==
  LET at == <<pos, done % Len(directions)>>
  IN  IF AllOnGoal(pos) THEN done
      ELSE IF at \in seen THEN -1
      ELSE FirstAllOnGoal(StepAll(pos, directions[(done % Len(directions)) + 1]),
                          done + 1, seen \cup {at})

LeastSteps == FirstAllOnGoal(hist.start0, 0, {})

\* the lock-step traversal is eventually periodic; whether a step with all
\* walkers on goal nodes lies on its cycle, so that it recurs for ever
RECURSIVE AllOnGoalRecurs(_, _, _)
AllOnGoalRecurs(pos, done, trace) ==
  LET at == <<pos, done % Len(directions)>>
  IN  IF \E j \in 1..Len(trace) : trace[j] = at
      THEN \E j \in 1..Len(trace) :
              /\ AllOnGoal(trace[j][1])
              /\ \E i \in 1..j : trace[i] = at
      ELSE AllOnGoalRecurs(StepAll(pos, directions[(done % Len(directions)) + 1]),
                           done + 1, Append(trace, at))

Converges == AllOnGoalRecurs(hist.start0, 0, <<>>)

\* -------------------------------------------------------------------- C1
\* C1: whenever solve_part_2 returns Ok(total_steps), total_steps is the
\* least number of lock-step steps after which all walkers are on goal nodes.
C1_ReturnsLeastSteps ==
  (pc = "done" /\ result.tag = "Ok") => result.val = LeastSteps

\* -------------------------------------------------------------------- C2
\* C2: when the lock-step traversal keeps reaching steps with every walker
\* on a goal node, the loop terminates with Ok unless a device call fails.
\* The loop is deterministic in the walker set it begins an iteration with,
\* so a run that terminates never begins two iterations with the same
\* walker set.
C2_ConvergingRunTerminates ==
  (pc = "loop" /\ Converges) => start \notin hist.heads

\* -------------------------------------------------------------------- C6
\* C6: with an empty walker set solve_part_2 returns Ok(0) at once: no device
\* call is made and no kernel launch is issued.
C6_EmptyWalkerSetNoDispatch ==
  (pc # "build_graph" /\ result.tag # "panic" /\ hist.start0 = <<>>) =>
    /\ hist.launch_calls = 0
    /\ hist.faults = 0 => hist.device_ops = 0
    /\ (hist.faults = 0 /\ pc = "done") => result = Ok(0)

\* -------------------------------------------------------------------- C7
\* C7: the loop is bounded: when the walkers are never all on goal nodes the
\* run ends with ConvergenceTimeout after finitely many dispatches, so it
\* never begins an iteration with a walker set it began an earlier one with.
C7_LoopIsBounded ==
  (pc = "loop" /\ LeastSteps = -1) => start \notin hist.heads

AfterInit == {"from_ptx", "stream_new", "as_dbuf_graph", "as_dbuf_start", "as_dbuf_goals",
              "as_dbuf_directions", "as_dbuf_nodes", "as_dbuf_steps", "get_function",
              "suggested_launch_configuration", "launch", "synchronize", "copy_nodes",
              "copy_steps", "return"}

AfterLoad == AfterInit \ {"from_ptx"}

C3_AddReturnsSum ==
  (pc = "add_done" /\ result.tag = "Ok") => (Len(a) = Len(b) /\ out = VecSum(a, b))

\* -------------------------------------------------------------------- C4
\* C4: with a.len() != b.len() add returns an error before any device work:
\* the call makes no device call, holds no context, module, stream or buffer
\* and issues no launch.
C4_MismatchFailsBeforeDeviceWork ==
  (pc \notin {"idle", "add_len_check"} /\ Len(a) # Len(b)) =>
    /\ pc = "add_done"
    /\ result = Err("a and b must be the same length")
    /\ hist.device_ops = 0
    /\ hist.launch_calls = 0
    /\ session = NoSession
    /\ bufs = NoBufs
    /\ ~kernel.active

C4_Witness ==
  /\ pc = "add_done"
  /\ Len(a) # Len(b)
  /\ result.tag = "Err"
  /\ hist.device_ops = 0

\* -------------------------------------------------------------------- C5
\* C5: for every problem size n and block size the computed configuration
\* has block_size >= 1 and grid_size * block_size >= n.
C5_LaunchCoversProblem ==
  (plan.computed /\ ~plan.panic) =>
    /\ plan.block_size >= 1
    /\ UsizeGe(Threads(plan.grid_size, plan.block_size), plan.length)

\* ------------------------------------------------------------------- C10
\* C10: after a call that failed for mismatched lengths, a call of add with
\* inputs of equal length succeeds with the element-wise sum (unless the
\* device fails a call of its own accord).
C10_UsableAfterMismatch ==
  (/\ pc = "add_done"
   /\ hist.calls # <<>>
   /\ hist.calls[Len(hist.calls)].mismatched
   /\ Len(a) = Len(b)
   /\ Len(a) > 0
   /\ hist.faults = 0) =>
     (result.tag = "Ok" /\ out = VecSum(a, b))

\* ------------------------------------------------------------------- C13
\* C13: when some successor of the instruction map is not a node of the
\* graph, solve_part_2 ends by returning an error value to its caller (it
\* does not panic).
C13_MalformedGraphIsError ==
  (pc = "done" /\ ~WellFormed(instructions)) => result.tag = "Err"

\* ------------------------------------------------------------------- C11
\* C11: a device call of a dispatch that fails makes solve_part_2 return that
\* error at once: the failing call is the last device call of the run, the
\* error returned is the one of the step that failed, every local of the
\* dispatch is dropped, and once the error is returned nothing more happens
\* (no later step, no retry, no further dispatch).
C11_FailureReturnsAtOnce ==
  [][/\ hist'.faults > hist.faults => (result.tag = "running" /\ result'.tag = "Err")
     /\ (result.tag = "running" /\ result'.tag = "Err") =>
          /\ pc' = "done"
          /\ result'.err = pc
          /\ hist'.device_ops = hist.device_ops + 1
          /\ hist'.dispatches = hist.dispatches
          /\ session' = NoSession /\ bufs' = NoBufs /\ ~kernel'.active
     /\ result.tag = "Err" => (pc = "done" /\ hist' = hist)]_vars

C11_Witness ==
  /\ pc = "done"
  /\ result.tag = "Err"
  /\ hist.faults = 1
  /\ hist.dispatches = 2

\* ------------------------------------------------------------------- C12
\* C12: solve_part_2 ends either with Ok(count), every walker of the walker
\* set downloaded last being on a goal node, or with an error and no step
\* count.
C12_OkOnlyWhenAllOnGoal ==
  pc = "done" =>
    \/ result.tag = "Ok" /\ AllOnGoal(nodes) /\ result.val = steps
    \/ result.tag = "Err" /\ result.val = 0

\* ------------------------------------------------------------------- C14
\* the steps of graph_traversal that follow the lookup of the kernel
AfterLookup == {"suggested_launch_configuration", "launch", "synchronize", "copy_nodes",
                "copy_steps", "return"}

\* C14: every dispatch looks the kernel up by name in the module it loaded;
\* when "graph_traversal" is not an entry point of the module the lookup
\* fails, the call returns that error, and no launch is ever enqueued.
C14_MissingEntryPointFails ==
  /\ pc \in AfterLookup \cup {"loop"} => hist.lookups = hist.dispatches
  /\ "graph_traversal" \notin ptx =>
       /\ pc \notin AfterLookup
       /\ hist.launch_calls = 0
       /\ hist.launches = <<>>
       /\ ~kernel.active
       /\ hist.lookups = 1 => (pc = "done" /\ result = Err("get_function"))

C14_Witness ==
  /\ "graph_traversal" \notin ptx
  /\ pc = "done"
  /\ result = Err("get_function")
  /\ hist.lookups = 1
  /\ hist.launch_calls = 0

\* ------------------------------------------------------------------- C15
\* C15: a thread of the graph_traversal kernel whose index is not below the
\* walker count start.len(), the size the launch and the output buffers were
\* made for, does nothing: it does not trap on an input element it has not
\* got and it writes no output slot; every write is inside the output buffers.
C15_ThreadsBeyondSizeAreNoOps ==
  cfg.func = "graph_traversal" =>
    \A t \in kernel.log :
      /\ t.idx >= Len(bufs["start_gpu"].data) => (~t.trap /\ t.writes = {})
      /\ \A w \in t.writes : w.at < Len(bufs["nodes_buf"].data)

\* ------------------------------------------------------------------- C16
\* C16: the thread with index idx writes output slot idx only, so no two
\* threads of a launch write the same slot.
C16_ThreadWritesOwnSlot ==
  /\ \A t \in kernel.log : \A w \in t.writes : w.at = t.idx
  /\ \A t1, t2 \in kernel.log : t1.idx # t2.idx => t1.writes \cap t2.writes = {}

C16_Witness ==
  /\ cfg.func = "graph_traversal"
  /\ \E t1, t2 \in kernel.log :
       /\ t1.idx # t2.idx
       /\ t1.writes # {}
       /\ t2.writes # {}

\* ------------------------------------------------------------------- C17
\* C17: the host copies an output buffer back only after the synchronize
\* that follows the launch has returned successfully: at the copies no launch
\* is in flight, every thread has run, none has trapped, and every launch of
\* the run has been synchronized; while a launch is in flight the host is
\* at synchronize.
C17_DownloadAfterSynchronize ==
  /\ pc \in {"copy_nodes", "copy_steps", "return"} =>
       /\ ~kernel.active
       /\ kernel.pending = {}
       /\ ~kernel.trapped
       /\ hist.syncs = Len(hist.launches)
       /\ hist.syncs = hist.dispatches
  /\ kernel.active => pc = "synchronize"

C17_Witness ==
  /\ pc = "copy_steps"
  /\ hist.syncs = 1
  /\ nodes = bufs["nodes_buf"].data
  /\ nodes # Zeros(Len(nodes))

\* ------------------------------------------------------------------- C18
\* C18: at most one launch is in flight at any time, a launch is issued only
\* when none is in flight, and an iteration begins with the walker set the
\* previous one downloaded, after that one's launch has been synchronized.
C18_OneLaunchInFlight ==
  /\ Len(hist.launches) - hist.syncs \in {0, 1}
  /\ pc # "done" => (kernel.active <=> Len(hist.launches) - hist.syncs = 1)
  /\ pc = "launch" => ~kernel.active
  /\ (pc = "loop" /\ hist.dispatches > 0) =>
       /\ start = nodes
       /\ hist.syncs = hist.dispatches
       /\ Len(hist.launches) = hist.dispatches

C18_Witness ==
  /\ hist.dispatches = 2
  /\ pc = "synchronize"
  /\ kernel.active
  /\ bufs["start_gpu"].data = start
  /\ start # hist.start0
  /\ hist.syncs = 1

\* ------------------------------------------------------------------- C19
\* C19: every buffer whose address a launch of add was given stays allocated
\* while the launch is in flight.
C19_LaunchArgumentsStayLive ==
  kernel.active => \A name \in kernel.args : bufs[name].live

\* ------------------------------------------------------------------- C20
\* C20: what a dispatch created is released buffers, stream and module first
\* and the context last, and nothing of it is live when the next iteration
\* begins or the run has ended; a dispatch that ran to its end releases all
\* nine of its locals.
C20_ContextReleasedLast ==
  /\ \A k \in 1..Len(hist.released) : hist.released[k] = "ctx" => k = Len(hist.released)
  /\ pc \in {"loop", "quick_init", "done"} =>
       /\ session = NoSession
       /\ \A name \in BufNames : ~bufs[name].live
  /\ (pc = "loop" /\ hist.dispatches > 0) =>
       hist.released = <<"steps_buf", "nodes_buf", "directions_gpu", "goals_gpu",
                         "start_gpu", "graph_gpu", "stream", "module", "ctx">>

C20_Witness ==
  /\ pc = "loop"
  /\ Len(hist.released) = 9
  /\ hist.released[9] = "ctx"
  /\ hist.released[1] = "steps_buf"

\* ------------------------------------------------------------------- C21
\* C21: within a call nothing is done on the device unless quick_init has
\* succeeded earlier in the same call: whenever the call holds a module, a
\* stream, a buffer, a looked-up kernel or a launch, and at every step after
\* quick_init, it holds the context that quick_init returned.
C21_NothingBeforeInit ==
  /\ (\/ session.module
      \/ session.stream # 0
      \/ \E name \in BufNames : bufs[name].live
      \/ cfg.func # ""
      \/ kernel.active) => session.ctx
  /\ pc \in AfterInit => session.ctx
  /\ hist.loads <= hist.inits
  /\ hist.streams <= hist.inits
  /\ hist.lookups <= hist.inits
  /\ Len(hist.launches) <= hist.inits

C21_Witness ==
  /\ pc = "synchronize"
  /\ kernel.active
  /\ session.ctx
  /\ bufs["steps_buf"].live

\* ------------------------------------------------------------------- C22
\* C22: a dispatch advances every walker by exactly one direction step: the
\* walker set it returns is the one it was given, moved one step in one
\* direction of the sequence, and every thread of a walker made one step.
C22_OneStepPerDispatch ==
  pc = "return" =>
    /\ \E d \in 1..Len(directions) : nodes = StepAll(start, directions[d])
    /\ \A w \in 1..Len(start) : AdvancesOf(w) = 1

\* ------------------------------------------------------------------- C23
\* C23: the direction applied at the k-th advance of a walker (k counted from
\* 0 over the whole run) is directions[k mod len(directions)].  The j-th
\* advance a thread makes in a dispatch applies directions[j - 1].
C23_DirectionFollowsGlobalStep ==
  cfg.func = "graph_traversal" =>
    \A t \in kernel.log :
      t.idx < Len(hist.adv) =>
        \A j \in 1..t.advances :
          directions[j] =
            directions[((hist.adv[t.idx + 1] + j - 1) % Len(directions)) + 1]

\* ------------------------------------------------------------------- C24
\* C24: when the host evaluates the all-walkers-on-goal predicate, every
\* walker has been advanced by the same total number of direction steps.
C24_LockStep ==
  pc = "return" =>
    \A v, w \in 1..Len(start) :
      hist.adv[v] + AdvancesOf(v) = hist.adv[w] + AdvancesOf(w)

\* ------------------------------------------------------------------- C26
\* C26: the step count a dispatch reports for a walker is the number of
\* direction steps it advanced that walker, and the step total of the host
\* is the number of direction steps every walker has been advanced.
C26_StepCountsAreSteps ==
  /\ pc = "return" => \A w \in 1..Len(steps_run) : steps_run[w] = AdvancesOf(w)
  /\ pc = "loop" => \A w \in 1..Len(hist.adv) : steps = hist.adv[w]

\* ------------------------------------------------------------------- C25
\* the node reached from node by the first j directions of the sequence
RECURSIVE PrefixReach(_, _)
PrefixReach(node, j) ==
  IF j = 0 THEN node
  ELSE LET from == PrefixReach(node, j - 1)
       IN  IF directions[j] THEN At(graph, from)[1] ELSE At(graph, from)[2]

\* C25: the walker set keeps the length of the initial start set in every
\* iteration, the output vectors of a dispatch have that length, and element
\* i of the returned set is walker i: the zero fill or a node reached from
\* element i of the set the dispatch was given.
C25_WalkerSetKeepsLength ==
  /\ pc # "build_graph" => Len(start) = Len(hist.start0)
  /\ pc \in {"get_function", "suggested_launch_configuration", "launch", "synchronize",
             "copy_nodes", "copy_steps", "return"} =>
       /\ Len(nodes) = Len(start)
       /\ Len(steps_run) = Len(start)
       /\ Len(bufs["nodes_buf"].data) = Len(start)
       /\ Len(bufs["steps_buf"].data) = Len(start)
  /\ pc = "return" =>
       \A w \in 1..Len(start) :
         \E j \in 0..Len(directions) :
           nodes[w] = (IF j = 0 THEN 0 ELSE PrefixReach(start[w], j))

C25_Witness ==
  /\ pc = "loop"
  /\ hist.dispatches = 1
  /\ Len(start) = 2
  /\ start # hist.start0

\* ------------------------------------------------------------------- C28
\* C28: after a dispatch, element i of the downloaded walker set is a value
\* the kernel wrote for walker i in that dispatch: thread i has written slot
\* i of nodes, and the value is the node reached from start[i] by a non-empty
\* prefix of the direction sequence.
C28_EveryWalkerIsWritten ==
  pc = "return" =>
    \A w \in 1..Len(start) :
      /\ \E t \in kernel.log :
           t.idx = w - 1 /\ [buf |-> "nodes", at |-> w - 1] \in t.writes
      /\ \E j \in 1..Len(directions) : nodes[w] = PrefixReach(start[w], j)

\* ------------------------------------------------------------------- C30
\* what the threads idx, idx + 1, .., n - 1 of a launch leave in the output
\* buffer name when they run one after the other in the order of their index
RECURSIVE InIndexOrder(_, _, _, _)
InIndexOrder(name, idx, n, buf) ==
  IF idx >= n THEN buf
  ELSE InIndexOrder(name, idx + 1, n,
         ApplyWrites(buf, name,
                     kernel_graph_traversal(idx, graph, start, goals, directions).writes))

\* C30: what a dispatch downloads does not depend on the order in which the
\* device ran the threads of the launch: it is what the threads leave when
\* they run in the order of their index, a function of the graph, the start
\* positions, the goal set and the direction sequence alone.
C30_DispatchIsDeterministic ==
  LET n == cfg.grid_size * cfg.block_size
  IN  /\ pc \in {"copy_nodes", "copy_steps", "return"} =>
           /\ bufs["nodes_buf"].data = InIndexOrder("nodes", 0, n, Zeros(Len(start)))
           /\ bufs["steps_buf"].data = InIndexOrder("steps", 0, n, Zeros(Len(start)))
      /\ pc = "return" =>
           /\ nodes = InIndexOrder("nodes", 0, n, Zeros(Len(start)))
           /\ steps_run = InIndexOrder("steps", 0, n, Zeros(Len(start)))

C30_Witness ==
  /\ pc = "return"
  /\ nodes # Zeros(Len(nodes))
  /\ \E t1, t2 \in kernel.log :
       /\ t1.idx # t2.idx
       /\ t1.writes # {}
       /\ t2.writes # {}

\* ------------------------------------------------------------------- C27
\* C27: the grid size is exactly ceil(n / block_size): for n = 0 it is 0, and
\* for n >= 1 grid_size blocks cover n while grid_size - 1 blocks do not.
C27_GridIsCeiling ==
  (plan.computed /\ ~plan.panic) =>
    IF plan.length = <<0, 0, 0, 0>>
    THEN plan.grid_size = <<0, 0>>
    ELSE /\ UsizeGe(Threads(plan.grid_size, plan.block_size), plan.length)
         /\ plan.grid_size # <<0, 0>>
         /\ ~UsizeGe(Threads(U32Sub1(plan.grid_size).val, plan.block_size), plan.length)

\* ------------------------------------------------------------------- C29
\* day08::gcd, lcm and calculate_lcm
RECURSIVE gcd(_, _)
gcd(x, y) == IF y = 0 THEN x ELSE gcd(y, x % y)

lcm(x, y) == (x * y) \div gcd(x, y)

RECURSIVE calculate_lcm(_, _)
calculate_lcm(cycle_lengths, acc) ==
  IF cycle_lengths = <<>> THEN acc
  ELSE calculate_lcm(Tail(cycle_lengths), lcm(acc, Head(cycle_lengths)))

\* the values of the cycle_lengths map in key order; 0 marks a label that is
\* not a key of the map
RECURSIVE Values(_, _)
Values(cycle_lengths, k) ==
  IF k > Len(cycle_lengths) THEN <<>>
  ELSE (IF cycle_lengths[k] = 0 THEN <<>> ELSE <<cycle_lengths[k]>>)
         \o Values(cycle_lengths, k + 1)

\* the body of the for loop of day08::solve_part_2 for the walkers w, w + 1, ..:
\* each is moved one step in direction dir, and a walker that arrives on a
\* label ending in Z records the step count under that label
RECURSIVE MoveFrom(_, _, _, _, _)
MoveFrom(w, cur, dir, count, cycle_lengths) ==
  IF w > Len(cur) THEN [cur |-> cur, cycle_lengths |-> cycle_lengths]
  ELSE LET to == IF dir THEN instructions[cur[w] + 1].left
                        ELSE instructions[cur[w] + 1].right
       IN  MoveFrom(w + 1, [cur EXCEPT ![w] = to], dir, count,
                    IF instructions[to + 1].last = "Z"
                    THEN [cycle_lengths EXCEPT ![to + 1] = count]
                    ELSE cycle_lengths)

\* the while loop of day08::solve_part_2 and its result; -1 when the loop has
\* not ended after MaxCpuSteps steps
RECURSIVE day08_solve_part_2_from(_, _, _)
day08_solve_part_2_from(cur, count, cycle_lengths) ==
  IF Len(Values(cycle_lengths, 1)) = Len(cur) THEN calculate_lcm(Values(cycle_lengths, 1), 1)
  ELSE IF count >= MaxCpuSteps THEN -1
  ELSE LET dir == directions[(count % Len(directions)) + 1]
           m   == MoveFrom(1, cur, dir, count + 1, cycle_lengths)
       IN  day08_solve_part_2_from(m.cur, count + 1, m.cycle_lengths)

day08_solve_part_2 ==
  day08_solve_part_2_from(IndexesEnding(instructions, "A", 1), 0,
                          [k \in 1..Len(instructions) |-> 0])

\* C29: when gpu_day08::solve_part_2 and day08::solve_part_2 both return Ok
\* on an input, they return the same step count.
C29_GpuAgreesWithCpu ==
  (pc = "done" /\ result.tag = "Ok" /\ day08_solve_part_2 # -1) =>
    result.val = day08_solve_part_2

====
